---- MODULE Spec2Model ----
(***************************************************************************)
(* Model of the Holdify SDK client (packages/core/dist/client.js) and its  *)
(* error taxonomy (errors.js).  Strings the code inspects character by     *)
(* character (credentials, the Retry-After header) are sequences of        *)
(* one-character strings; JavaScript numbers are tagged pairs so that NaN  *)
(* and undefined are values of their own.                                  *)
(***************************************************************************)
EXTENDS Integers, Sequences, FiniteSets, TLC

\* ------------------------------------------------------------------------
\* Bounds of the model
\* ------------------------------------------------------------------------
\* how many time units past the deadline the event loop may run the timer late
MaxLate == 1
\* the largest non-default timeout a configuration supplies
MaxTimeout == 2

\* ------------------------------------------------------------------------
\* JavaScript values
\* ------------------------------------------------------------------------
Num(n) == <<"num", n>>
NaN == <<"nan", 0>>
Undef == <<"undef", 0>>
UndefStr == "<undefined>"

\* ------------------------------------------------------------------------
\* Program constants (client.js)
\* ------------------------------------------------------------------------
OFFICIAL_BASE_URL == "https://api.holdify.io"
PFX_PROJ_LIVE == <<"h","k","_","p","r","o","j","_","l","i","v","e","_">>
PFX_PROJ_TEST == <<"h","k","_","p","r","o","j","_","t","e","s","t","_">>
PFX_LIVE == <<"h","k","_","l","i","v","e","_">>
PFX_TEST == <<"h","k","_","t","e","s","t","_">>
API_KEY_PREFIXES == <<PFX_PROJ_LIVE, PFX_PROJ_TEST, PFX_LIVE, PFX_TEST>>
DEFAULT_TIMEOUT == 10000
TOKEN_LIMIT_EXCEEDED == "TOKEN_LIMIT_EXCEEDED"

\* String.prototype.startsWith
StartsWith(s, p) == Len(s) >= Len(p) /\ SubSeq(s, 1, Len(p)) = p

\* ------------------------------------------------------------------------
\* Error taxonomy (errors.js).  One record shape for every thrown value;
\* sdk is "instanceof HoldifySDKError".
\* ------------------------------------------------------------------------
\* a threats field: undefined, or the list of detected threat types
NoThreats == <<"undef", <<>>>>
Threats(list) == <<"list", list>>

BaseError(name, message, code, statusCode, sdk) ==
    [name |-> name, message |-> message, code |-> code, statusCode |-> statusCode,
     sdk |-> sdk, retryAfter |-> Undef, limit |-> Undef, spent |-> Undef,
     remaining |-> Undef, requested |-> Undef, resetAt |-> UndefStr,
     riskScore |-> Undef, threats |-> NoThreats, cause |-> "none", causeMessage |-> UndefStr]

NoError == BaseError("none", UndefStr, UndefStr, Undef, FALSE)

\* a thrown value that is not part of the taxonomy (TypeError, SyntaxError, ...)
ForeignError(name, message) == BaseError(name, message, UndefStr, Undef, FALSE)

\* a default parameter value: used when the argument is undefined
Dflt(v, d) == IF v = UndefStr THEN d ELSE v
\* v || d on strings
OrStr(v, d) == IF v = UndefStr \/ v = "" THEN d ELSE v

HoldifySDKError(message, code, statusCode) ==
    BaseError("HoldifySDKError", message, code, statusCode, TRUE)

InvalidKeyError(message) ==
    BaseError("InvalidKeyError", Dflt(message, "Invalid API key"), "INVALID_API_KEY", Num(401), TRUE)

RateLimitError(message, retryAfter) ==
    [BaseError("RateLimitError", Dflt(message, "Rate limit exceeded"), "RATE_LIMIT_EXCEEDED", Num(429), TRUE)
        EXCEPT !.retryAfter = retryAfter]

NetworkError(message, originalError) ==
    [BaseError("NetworkError", message, "NETWORK_ERROR", Undef, TRUE)
        EXCEPT !.cause = originalError.name, !.causeMessage = originalError.message]

TokenLimitExceededError(message, limit, requested, remaining) ==
    [BaseError("TokenLimitExceededError", Dflt(message, "Token limit exceeded"), TOKEN_LIMIT_EXCEEDED, Num(429), TRUE)
        EXCEPT !.limit = limit, !.requested = requested, !.remaining = remaining]

BudgetExceededError(message, limit, spent, remaining, resetAt) ==
    [BaseError("BudgetExceededError", Dflt(message, "Budget limit exceeded"), "BUDGET_EXCEEDED", Num(402), TRUE)
        EXCEPT !.limit = limit, !.spent = spent, !.remaining = remaining, !.resetAt = resetAt]

PromptBlockedError(message, riskScore, threats) ==
    [BaseError("PromptBlockedError", Dflt(message, "Prompt blocked due to security policy"), "PROMPT_BLOCKED", Num(400), TRUE)
        EXCEPT !.riskScore = riskScore, !.threats = threats]

\* ------------------------------------------------------------------------
\* Holdify.constructor
\* ------------------------------------------------------------------------
\* API_KEY_PREFIXES.some(prefix => apiKey.startsWith(prefix))
HasValidPrefixFirstOnly(apiKey) == StartsWith(apiKey, API_KEY_PREFIXES[1])

HasValidPrefix(apiKey) ==
    \E i \in 1..Len(API_KEY_PREFIXES) : StartsWith(apiKey, API_KEY_PREFIXES[i])

\* the error the constructor throws, NoError when it constructs
ConstructorError(config) ==
    IF config.apiKey = <<>>
    THEN HoldifySDKError("API key is required", UndefStr, Undef)
    ELSE IF ~HasValidPrefix(config.apiKey)
    THEN HoldifySDKError("Invalid API key format", UndefStr, Undef)
    ELSE NoError

\* config.baseUrl && config.baseUrl !== OFFICIAL_BASE_URL
WarnsCustomBaseUrl(config) ==
    config.baseUrl # UndefStr /\ config.baseUrl # "" /\ config.baseUrl # OFFICIAL_BASE_URL

\* the fields of the constructed instance
ConstructedClient(config) ==
    [apiKey |-> config.apiKey,
     baseUrl |-> OrStr(config.baseUrl, OFFICIAL_BASE_URL),
     timeout |-> IF config.timeout = 0 THEN DEFAULT_TIMEOUT ELSE config.timeout,
     onBudgetWarning |-> config.onBudgetWarning]

\* ------------------------------------------------------------------------
\* parseInt(string) with no radix argument (ECMAScript): leading white space
\* is skipped, then an optional sign, then an optional 0x/0X prefix selecting
\* radix 16, then the longest run of digits; NaN when that run is empty.
\* ------------------------------------------------------------------------
DigitChars == <<"0","1","2","3","4","5","6","7","8","9","a","b","c","d","e","f">>

DigitValue(c) ==
    IF \E i \in 1..Len(DigitChars) : DigitChars[i] = c
    THEN (CHOOSE i \in 1..Len(DigitChars) : DigitChars[i] = c) - 1
    ELSE IF c \in {"A","B","C","D","E","F"}
    THEN CASE c = "A" -> 10 [] c = "B" -> 11 [] c = "C" -> 12
           [] c = "D" -> 13 [] c = "E" -> 14 [] c = "F" -> 15
    ELSE 99

IsDigitIn(c, radix) == DigitValue(c) < radix

RECURSIVE StripLeadingWhitespace(_)
StripLeadingWhitespace(s) ==
    IF s # <<>> /\ Head(s) = " " THEN StripLeadingWhitespace(Tail(s)) ELSE s

\* the value of the longest digit prefix of s, as <<number of digits, value>>
RECURSIVE DigitRun(_, _, _, _)
DigitRun(s, radix, count, acc) ==
    IF s # <<>> /\ IsDigitIn(Head(s), radix)
    THEN DigitRun(Tail(s), radix, count + 1, acc * radix + DigitValue(Head(s)))
    ELSE <<count, acc>>

ParseInt(str) ==
    LET s0 == StripLeadingWhitespace(str)
        neg == s0 # <<>> /\ Head(s0) = "-"
        s1 == IF s0 # <<>> /\ Head(s0) \in {"-", "+"} THEN Tail(s0) ELSE s0
        hex == Len(s1) >= 2 /\ s1[1] = "0" /\ s1[2] \in {"x", "X"}
        s2 == IF hex THEN SubSeq(s1, 3, Len(s1)) ELSE s1
        run == DigitRun(s2, IF hex THEN 16 ELSE 10, 0, 0)
    IN  IF run[1] = 0 THEN NaN
        ELSE Num(IF neg THEN 0 - run[2] ELSE run[2])

\* a response header: headers.get() returns null when the header is absent
HeaderAbsent == [present |-> FALSE, value |-> <<>>]
Header(chars) == [present |-> TRUE, value |-> chars]

\* parseInt(response.headers.get('Retry-After') || '60')
RetryAfterOf(header) ==
    ParseInt(IF ~header.present \/ header.value = <<>> THEN <<"6", "0">> ELSE header.value)

\* ------------------------------------------------------------------------
\* Response bodies.  json is what response.json() makes of the body:
\* "absent" and "invalid" make it reject, the others are the decoded value.
\* ------------------------------------------------------------------------
ErrObj(message, code, limit, spent, remaining, requested, resetAt) ==
    [message |-> message, code |-> code, limit |-> limit, spent |-> spent,
     remaining |-> remaining, requested |-> requested, resetAt |-> resetAt]

NoErrObj == ErrObj(UndefStr, UndefStr, Undef, Undef, Undef, Undef, UndefStr)

Budget(limit, spent, remaining, warningExceeded) ==
    [limit |-> limit, spent |-> spent, remaining |-> remaining, warningExceeded |-> warningExceeded]

NoBudget == Budget(0, 0, 0, FALSE)

Body(json, errorKind, error, budgetKind, budget, blocked, riskScore, threats, explanation) ==
    [json |-> json, errorKind |-> errorKind, error |-> error,
     budgetKind |-> budgetKind, budget |-> budget, blocked |-> blocked, riskScore |-> riskScore,
     threats |-> threats, explanation |-> explanation]

\* the literal {} of handleErrorResponse's catch
EmptyObject == Body("object", "undefined", NoErrObj, "undefined", NoBudget, FALSE, Undef, NoThreats, UndefStr)
NoBody == Body("none", "undefined", NoErrObj, "undefined", NoBudget, FALSE, Undef, NoThreats, UndefStr)

BodyOf(json) == [EmptyObject EXCEPT !.json = json]
ErrorBody(kind, e) == [EmptyObject EXCEPT !.errorKind = kind, !.error = e]
BudgetBody(b) == [EmptyObject EXCEPT !.budgetKind = "object", !.budget = b]

\* data.error?.<field>: undefined unless data.error is an object having it
ErrField(data, f) ==
    IF data.json = "object" /\ data.errorKind = "object" THEN data.error[f]
    ELSE IF f \in {"message", "code", "resetAt"} THEN UndefStr ELSE Undef

\* ------------------------------------------------------------------------
\* Holdify.handleErrorResponse: the value it throws
\* ------------------------------------------------------------------------
\* await response.json().catch(() => ({}))
ErrorData(body) == IF body.json \in {"absent", "invalid"} THEN EmptyObject ELSE body

HandleErrorResponse(status, retryAfterHeader, body) ==
    LET data == ErrorData(body)
    IN  IF data.json = "null"
        THEN ForeignError("TypeError", "Cannot read properties of null (reading 'error')")
        ELSE IF status = 401
        THEN InvalidKeyError(ErrField(data, "message"))
        ELSE IF status = 402
        THEN BudgetExceededError(ErrField(data, "message"), ErrField(data, "limit"),
                                 ErrField(data, "spent"), ErrField(data, "remaining"),
                                 ErrField(data, "resetAt"))
        ELSE IF status = 429
        THEN IF ErrField(data, "code") = TOKEN_LIMIT_EXCEEDED
             THEN TokenLimitExceededError(ErrField(data, "message"), ErrField(data, "limit"),
                                          ErrField(data, "requested"), ErrField(data, "remaining"))
             ELSE RateLimitError(ErrField(data, "message"), RetryAfterOf(retryAfterHeader))
        ELSE HoldifySDKError(OrStr(ErrField(data, "message"), "Request failed"),
                             ErrField(data, "code"), Num(status))

\* ------------------------------------------------------------------------
\* Holdify.maskKey
\* ------------------------------------------------------------------------
MaskKey(key) ==
    IF Len(key) <= 12 THEN <<"*", "*", "*">>
    ELSE SubSeq(key, 1, 8) \o <<".", ".", ".">> \o SubSeq(key, Len(key) - 3, Len(key))

\* (spent / limit) * 100 in IEEE arithmetic: exact quotients are numbers,
\* x/0 is Infinity (NaN for 0/0), anything else is kept as the ratio
PercentUsed(spent, limit) ==
    IF limit = 0 THEN (IF spent = 0 THEN NaN ELSE <<"inf", 0>>)
    ELSE IF (spent * 100) % limit = 0 THEN Num((spent * 100) \div limit)
    ELSE <<"ratio", spent * 100, limit>>

WarningInfo(budget, key) ==
    [budget |-> budget, percentUsed |-> PercentUsed(budget.spent, budget.limit),
     keyHint |-> MaskKey(key)]

\* ------------------------------------------------------------------------
\* The public operations (client.js 63-239)
\* ------------------------------------------------------------------------
OpNames == {"verify", "createKey", "listKeys", "revokeKey", "rotateKey",
            "trackUsage", "reportUsage", "analyzePrompt"}

\* the message of the NetworkError each operation's catch block builds
FailureMessage(name) ==
    CASE name = "verify" -> "Failed to verify key"
      [] name = "createKey" -> "Failed to create key"
      [] name = "listKeys" -> "Failed to list keys"
      [] name = "revokeKey" -> "Failed to revoke key"
      [] name = "rotateKey" -> "Failed to rotate key"
      [] name = "trackUsage" -> "Failed to track usage"
      [] name = "reportUsage" -> "Failed to report usage"
      [] name = "analyzePrompt" -> "Failed to analyze prompt"

\* operations that await response.json() on a 2xx response
DecodesBody(name) == name \notin {"revokeKey", "trackUsage"}

\* operations that JSON.stringify a request body inside their try block
HasRequestBody(name) == name \in {"verify", "createKey", "trackUsage", "reportUsage", "analyzePrompt"}

\* catch (error) { if (error instanceof HoldifySDKError) throw error;
\*                 throw new NetworkError(message, error) }
RethrowAlwaysWrapped(message, error) == NetworkError(message, error)

Rethrow(message, error) ==
    IF error.sdk THEN error ELSE NetworkError(message, error)

\* clearTimeout(timeoutId): a pending timer is cancelled, any other is left
ClearTimeoutForgotten(t) == t

ClearTimeout(t) == IF t = "pending" THEN "cleared" ELSE t

\* response.ok
Ok(status) == status >= 200 /\ status <= 299

\* ------------------------------------------------------------------------
\* Inputs
\* ------------------------------------------------------------------------
Chars_abc == <<"a", "b", "c">>
Credentials ==
    { <<>>,
      PFX_PROJ_LIVE, PFX_PROJ_TEST, PFX_LIVE, PFX_TEST,
      PFX_PROJ_LIVE \o Chars_abc, PFX_PROJ_TEST \o Chars_abc,
      PFX_LIVE \o Chars_abc, PFX_TEST \o Chars_abc,
      SubSeq(PFX_LIVE, 1, 7), SubSeq(PFX_PROJ_TEST, 1, 12), <<"h", "k", "_">>,
      <<"x">> \o PFX_LIVE \o Chars_abc, <<"s", "k", "_">> \o Chars_abc,
      <<"H","K","_","L","I","V","E","_">> \o Chars_abc,
      <<"h","k","_","p","r","o","d","_">> \o Chars_abc,
      <<"h","k","_","p","r","o","j","_">> \o Chars_abc,
      Chars_abc \o PFX_TEST }

ProjectKey == PFX_PROJ_LIVE \o Chars_abc
BaseUrls == {UndefStr, "", OFFICIAL_BASE_URL, "http://localhost:3000"}
\* a callback slot: not supplied, a callback that returns, one that throws
Callbacks == {"none", "ok", "throws"}

Config(apiKey, baseUrl, timeout, cb) ==
    [apiKey |-> apiKey, baseUrl |-> baseUrl, timeout |-> timeout, onBudgetWarning |-> cb]

Configs ==
    { Config(k, UndefStr, 0, "none") : k \in Credentials }
    \cup { Config(ProjectKey, b, 0, "none") : b \in BaseUrls }
    \cup { Config(ProjectKey, UndefStr, t, c) : t \in 0..MaxTimeout, c \in Callbacks }

\* keys handed to verify: the example of the documentation and a short one
LongKey == PFX_LIVE \o <<"a","b","c","d","e","f","g","h","i","j","k","l","m","n","o","p">>
ShortKey == PFX_LIVE \o <<"a","b","c","d">>
\* a key of 15 characters whose characters 9 to 11 are dots
DottedKey == PFX_LIVE \o <<".", ".", ".", "a", "b", "c", "d">>
VerifyKeys == {LongKey, ShortKey, DottedKey}

Invocation(name, key, cb, serializable) ==
    [name |-> name, key |-> key, onBudgetWarning |-> cb, serializable |-> serializable]

NoInvocation == Invocation("none", <<>>, "none", TRUE)

Invocations ==
    { Invocation("verify", k, c, TRUE) : k \in VerifyKeys, c \in Callbacks }
    \cup { Invocation(n, <<>>, "none", TRUE) : n \in OpNames \ {"verify"} }
    \cup { Invocation(n, <<>>, "none", FALSE) : n \in {n \in OpNames : HasRequestBody(n)} }

Statuses == {200, 204, 302, 400, 401, 402, 404, 429, 500, 503}

RetryAfterHeaders ==
    { HeaderAbsent, Header(<<>>), Header(<<"6","0">>), Header(<<"3","0">>), Header(<<"0">>),
      Header(<<"1",".","5">>), Header(<<" ","1","2">>), Header(<<"-","5">>), Header(<<"7","s">>),
      Header(<<"0","x","1","0">>), Header(<<"s","o","o","n">>),
      Header(<<"W","e","d",","," ","2","1"," ","O","c","t">>) }

ResponseHead(status, retryAfter) == [status |-> status, retryAfter |-> retryAfter]
NoResponse == ResponseHead(0, HeaderAbsent)

\* Retry-After accompanies 429 and 503 answers
ResponseHeads ==
    { ResponseHead(s, HeaderAbsent) : s \in Statuses }
    \cup { ResponseHead(s, h) : s \in {429, 503}, h \in RetryAfterHeaders }

Bodies ==
    { BodyOf("absent"), BodyOf("invalid"), BodyOf("null"), BodyOf("scalar"), EmptyObject,
      ErrorBody("null", NoErrObj), ErrorBody("string", NoErrObj),
      ErrorBody("object", ErrObj("expired", "KEY_EXPIRED", Undef, Undef, Undef, Undef, UndefStr)),
      ErrorBody("object", ErrObj("", UndefStr, Undef, Undef, Undef, Undef, UndefStr)),
      ErrorBody("object", ErrObj("too many tokens", TOKEN_LIMIT_EXCEEDED, Num(1000), Undef, Num(10), Num(50), UndefStr)),
      ErrorBody("object", ErrObj(UndefStr, TOKEN_LIMIT_EXCEEDED, Undef, Undef, Undef, Undef, UndefStr)),
      ErrorBody("object", ErrObj("over budget", "BUDGET_EXCEEDED", Num(500), Num(500), Num(0), Undef, "2026-12-01")),
      BudgetBody(Budget(100, 50, 50, FALSE)), BudgetBody(Budget(100, 80, 20, TRUE)),
      BudgetBody(Budget(0, 0, 0, TRUE)),
      [EmptyObject EXCEPT !.budgetKind = "null"],
      [EmptyObject EXCEPT !.blocked = TRUE, !.riskScore = Num(90),
                          !.threats = Threats(<<"prompt_injection", "jailbreak">>),
                          !.explanation = "Injection attempt"],
      [EmptyObject EXCEPT !.blocked = TRUE, !.explanation = ""],
      [EmptyObject EXCEPT !.riskScore = Num(40), !.threats = Threats(<<"pii">>),
                          !.explanation = "Flagged"] }

\* ------------------------------------------------------------------------
\* Holdify.verify, after "const result = await response.json()" (72-83):
\* the callbacks it invokes, in order, and the value a callback throws
\* ------------------------------------------------------------------------
CallbackCall(who, info) == [who |-> who, info |-> info]
CallbackThrown == ForeignError("Error", "callback failed")

\* onBudgetWarning?.(warningInfo); this.onBudgetWarning?.(warningInfo)
InvokeCallbacks(perCall, global, info) ==
    LET first == IF perCall = "none" THEN <<>> ELSE <<CallbackCall("perCall", info)>>
        second == IF global = "none" THEN <<>> ELSE <<CallbackCall("global", info)>>
    IN  IF perCall = "throws"
        THEN [calls |-> first, thrown |-> CallbackThrown]
        ELSE [calls |-> first \o second,
              thrown |-> IF global = "throws" THEN CallbackThrown ELSE NoError]

NoCalls == [calls |-> <<>>, thrown |-> NoError]

\* what the body of verify's try block does with the decoded result
VerifyDecoded(key, perCall, global, result) ==
    IF result.json = "null"
    THEN [calls |-> <<>>, thrown |-> ForeignError("TypeError", "Cannot read properties of null (reading 'budget')")]
    ELSE IF result.json = "object" /\ result.budgetKind = "object" /\ result.budget.warningExceeded
    THEN InvokeCallbacks(perCall, global, WarningInfo(result.budget, key))
    ELSE NoCalls

\* what the body of analyzePrompt's try block does with the decoded result
AnalyzeDecodedWithoutThreats(result) ==
    IF result.json = "null"
    THEN ForeignError("TypeError", "Cannot read properties of null (reading 'blocked')")
    ELSE IF result.json = "object" /\ result.blocked
    THEN PromptBlockedError(OrStr(result.explanation, "Prompt blocked due to security policy"),
                            result.riskScore, NoThreats)
    ELSE NoError

AnalyzeDecoded(result) ==
    IF result.json = "null"
    THEN ForeignError("TypeError", "Cannot read properties of null (reading 'blocked')")
    ELSE IF result.json = "object" /\ result.blocked
    THEN PromptBlockedError(OrStr(result.explanation, "Prompt blocked due to security policy"),
                            result.riskScore, result.threats)
    ELSE NoError

\* ------------------------------------------------------------------------
\* Cache (cache.js): a Map from key to { value, expiresAt } and the
\* interval that runs cleanup().  Time is Date.now() in milliseconds, counted
\* from the construction of the cache.
\* ------------------------------------------------------------------------
MaxAdvances == 2

DEFAULT_TTL == 300000
CLEANUP_PERIOD == 60000

CacheKeys == {"k1", "k2"}
\* values handed to set; undefined is a value a caller can pass
CacheValues == {"a", UndefStr}
\* the ttl argument of set: omitted, or a number of milliseconds
Ttls == {Undef, Num(0)}
\* the argument of new Cache(defaultTtl)
DefaultTtls == {Undef, Num(10)}
\* the delays by which the clock is seen to advance between two calls
Delays == {10, CLEANUP_PERIOD}

\* a default parameter value on numbers: used when the argument is undefined
DfltNum(v, d) == IF v = Undef THEN d ELSE v[2]

Entry(value, expiresAt) == [present |-> TRUE, value |-> value, expiresAt |-> expiresAt]
NoEntry == [present |-> FALSE, value |-> UndefStr, expiresAt |-> 0]
EmptyStore == [k \in CacheKeys |-> NoEntry]

\* what get returns when it finds nothing: undefined
Absent == UndefStr

\* set(key, value, ttl): this.store.set(key, { value, expiresAt: Date.now() + ttl })
SetWithoutTtl(store, key, value, ttl, t) == [store EXCEPT ![key] = Entry(value, t)]

Set(store, key, value, ttl, t) == [store EXCEPT ![key] = Entry(value, t + ttl)]

\* get(key): the value returned and the store it leaves
GetIgnoringExpiry(store, key, t) ==
    [value |-> IF store[key].present THEN store[key].value ELSE Absent, store |-> store]

Get(store, key, t) ==
    IF ~store[key].present
    THEN [value |-> Absent, store |-> store]
    ELSE IF t > store[key].expiresAt
    THEN [value |-> Absent, store |-> [store EXCEPT ![key] = NoEntry]]
    ELSE [value |-> store[key].value, store |-> store]

\* has(key): this.get(key) !== undefined
Has(store, key, t) ==
    [value |-> Get(store, key, t).value # Absent, store |-> Get(store, key, t).store]

\* delete(key): this.store.delete(key)
Delete(store, key) == [value |-> store[key].present, store |-> [store EXCEPT ![key] = NoEntry]]

\* cleanup(): deletes every entry with now > entry.expiresAt
CleanupAtExpiry(store, t) ==
    [k \in CacheKeys |-> IF store[k].present /\ t >= store[k].expiresAt THEN NoEntry ELSE store[k]]

CleanupEverything(store, t) == EmptyStore

Cleanup(store, t) ==
    [k \in CacheKeys |-> IF store[k].present /\ t > store[k].expiresAt THEN NoEntry ELSE store[k]]

\* clearInterval(this.cleanupInterval); this.cleanupInterval = null
ClearIntervalForgotten(interval) == interval

ClearInterval(interval) == "null"

\* ------------------------------------------------------------------------
\* Middleware adapters (express, hono, nextjs middleware.ts)
\* ------------------------------------------------------------------------
Adapters == {"express", "hono", "nextjs"}

\* errors.js 78-87: a class of its own, not a HoldifySDKError
HoldifyError(code, message, statusCode) ==
    BaseError("HoldifyError", message, code, Num(statusCode), FALSE)

\* an inbound request: the Authorization header, the x-api-key header and
\* the api_key query parameter, each absent or a string
Request(authorization, xApiKey, apiKey) ==
    [authorization |-> authorization, xApiKey |-> xApiKey, apiKey |-> apiKey]

NoRequest == Request(HeaderAbsent, HeaderAbsent, HeaderAbsent)

BEARER == <<"B", "e", "a", "r", "e", "r", " ">>
Token == <<"t", "o", "k">>

Requests ==
    { Request(a, x, q) :
        a \in { HeaderAbsent, Header(BEARER \o Token), Header(BEARER),
                Header(<<"B","a","s","i","c"," ">> \o Token), Header(Token) },
        x \in { HeaderAbsent, Header(<<>>), Header(<<"x", "k">>) },
        q \in { HeaderAbsent, Header(<<>>), Header(<<"q", "k">>) } }

\* what getKey returns: undefined, or a string and the source it came from
NoKey == [found |-> FALSE, value |-> <<>>, source |-> "none"]
Key(value, source) == [found |-> TRUE, value |-> value, source |-> source]

\* the test a source has to pass: typeof v === 'string' in express, a truthy
\* value in hono and nextjs
Accepts(adapter, source) ==
    IF adapter = "express" THEN source.present
    ELSE source.present /\ source.value # <<>>

defaultGetKey(adapter, r) ==
    IF r.authorization.present /\ StartsWith(r.authorization.value, BEARER)
    THEN Key(SubSeq(r.authorization.value, Len(BEARER) + 1, Len(r.authorization.value)),
             "authorization")
    ELSE IF Accepts(adapter, r.xApiKey) THEN Key(r.xApiKey.value, "x-api-key")
    ELSE IF Accepts(adapter, r.apiKey) THEN Key(r.apiKey.value, "query")
    ELSE NoKey

\* if (!key): undefined or the empty string
MissingOnlyWhenUndefined(k) == ~k.found

Missing(k) == ~k.found \/ k.value = <<>>

\* header values: a number, a string, undefined, or the header is not set
Str(s) == <<"str", s>>
Unset == <<"unset", 0>>
\* String(v) on a number or undefined
StringOf(v) == IF v = Undef THEN Str("undefined") ELSE v
\* a string-valued field handed over as it is
Raw(s) == IF s = UndefStr THEN Undef ELSE Str(s)

HeaderNames == {"X-Tokens-Limit", "X-Tokens-Remaining", "X-Tokens-Used",
                "X-Budget-Limit", "X-Budget-Remaining", "X-Budget-Reset",
                "X-RateLimit-Limit", "X-RateLimit-Remaining", "X-RateLimit-Reset"}
NoHeaders == [h \in HeaderNames |-> Unset]

\* the value a header gets from v: express hands v to res.setHeader as it
\* is, hono and nextjs convert with String(v) unless the code passes it raw;
\* hono drops a header whose value is undefined, nextjs stringifies it
HeaderValue(adapter, v, raw) ==
    IF adapter = "express" THEN v
    ELSE IF ~raw THEN StringOf(v)
    ELSE IF v # Undef THEN v
    ELSE IF adapter = "hono" THEN Unset ELSE Str("undefined")

\* the headers defaultOnError sets for the error
ErrorHeaders(adapter, error) ==
    [h \in HeaderNames |->
        IF error.name = "TokenLimitExceededError" /\ h = "X-Tokens-Limit"
        THEN HeaderValue(adapter, error.limit, FALSE)
        ELSE IF error.name = "TokenLimitExceededError" /\ h = "X-Tokens-Remaining"
        THEN HeaderValue(adapter, error.remaining, FALSE)
        ELSE IF error.name = "BudgetExceededError" /\ h = "X-Budget-Limit"
        THEN HeaderValue(adapter, error.limit, FALSE)
        ELSE IF error.name = "BudgetExceededError" /\ h = "X-Budget-Remaining"
        THEN HeaderValue(adapter, error.remaining, FALSE)
        ELSE IF error.name = "BudgetExceededError" /\ h = "X-Budget-Reset"
        THEN HeaderValue(adapter, Raw(error.resetAt), TRUE)
        ELSE Unset]

\* res.setHeader(name, undefined) throws ERR_HTTP_INVALID_HEADER_VALUE
SetHeaderThrows(headers) == \E h \in HeaderNames : headers[h] = Undef

\* the response the middleware writes
Response(status, code, message, headers) ==
    [written |-> TRUE, status |-> status, code |-> code, message |-> message, headers |-> headers]
NoResponseWritten ==
    [written |-> FALSE, status |-> Undef, code |-> UndefStr, message |-> UndefStr, headers |-> NoHeaders]

\* error.statusCode || 500
StatusOr500(statusCode) == IF statusCode \in {Undef, NaN, Num(0)} THEN Num(500) ELSE statusCode

\* defaultOnError(error): the response, or nothing written when a header
\* value makes res.setHeader throw
defaultOnError(adapter, error) ==
    IF SetHeaderThrows(ErrorHeaders(adapter, error)) THEN NoResponseWritten
    ELSE Response(StatusOr500(error.statusCode), error.code, error.message,
                  ErrorHeaders(adapter, error))

\* the catch block of the handler: the error handed to onError
Caught(error) ==
    IF error.name \in {"TokenLimitExceededError", "BudgetExceededError", "PromptBlockedError"}
    THEN error
    ELSE IF error.name = "HoldifyError" THEN error
    ELSE HoldifyError("INTERNAL_ERROR", "Verification failed", 500)

\* the result of client.verify as the handler reads it: valid and the
\* rateLimit, budget and usage snapshots (absent, or objects whose fields
\* are numbers, strings, null or undefined)
Null == <<"null", 0>>
RateLimit(limit, remaining, reset) ==
    [present |-> TRUE, limit |-> limit, remaining |-> remaining, reset |-> reset]
NoRateLimit == [present |-> FALSE, limit |-> Undef, remaining |-> Undef, reset |-> Undef]
BudgetInfo(limit, remaining, resetAt) ==
    [present |-> TRUE, limit |-> limit, remaining |-> remaining, resetAt |-> resetAt]
NoBudgetInfo == [present |-> FALSE, limit |-> Undef, remaining |-> Undef, resetAt |-> UndefStr]
UsageInfo(tokensUsed, tokenLimit, tokensRemaining) ==
    [present |-> TRUE, tokensUsed |-> tokensUsed, tokenLimit |-> tokenLimit,
     tokensRemaining |-> tokensRemaining]
NoUsageInfo == [present |-> FALSE, tokensUsed |-> Undef, tokenLimit |-> Undef, tokensRemaining |-> Undef]

VerifyResult(valid, rateLimit, budget, usage) ==
    [valid |-> valid, rateLimit |-> rateLimit, budget |-> budget, usage |-> usage]
NoVerifyResult == VerifyResult(FALSE, NoRateLimit, NoBudgetInfo, NoUsageInfo)

VerifyResults ==
    { VerifyResult(FALSE, NoRateLimit, NoBudgetInfo, NoUsageInfo),
      VerifyResult(FALSE, RateLimit(Num(100), Num(0), Num(1700)), NoBudgetInfo, NoUsageInfo),
      VerifyResult(TRUE, NoRateLimit, NoBudgetInfo, NoUsageInfo),
      VerifyResult(TRUE, RateLimit(Num(100), Num(99), Num(1700)), NoBudgetInfo, NoUsageInfo),
      VerifyResult(TRUE, RateLimit(Num(0), Num(0), Num(0)), NoBudgetInfo, NoUsageInfo),
      VerifyResult(TRUE, RateLimit(Num(100), Num(99), Num(1700)),
                   BudgetInfo(Num(500), Num(20), "2026-12-01"),
                   UsageInfo(Num(5), Num(1000), Num(995))),
      VerifyResult(TRUE, RateLimit(Num(100), Num(99), Num(1700)),
                   BudgetInfo(Num(500), Num(20), UndefStr),
                   UsageInfo(Num(5), Null, Null)),
      VerifyResult(TRUE, RateLimit(Num(100), Undef, Undef), NoBudgetInfo,
                   UsageInfo(Undef, Undef, Num(7))) }

\* v is truthy, for a number or undefined
Truthy(v) == v \notin {Undef, Null, NaN, Num(0)}

\* the headers the handler sets from a valid result (express 156-176)
SuccessHeaders(adapter, result) ==
    [h \in HeaderNames |->
        IF h = "X-RateLimit-Limit" /\ result.rateLimit.present /\ Truthy(result.rateLimit.limit)
        THEN HeaderValue(adapter, result.rateLimit.limit, FALSE)
        ELSE IF h = "X-RateLimit-Remaining" /\ result.rateLimit.present
                /\ result.rateLimit.remaining # Undef
        THEN HeaderValue(adapter, result.rateLimit.remaining, FALSE)
        ELSE IF h = "X-RateLimit-Reset" /\ result.rateLimit.present /\ Truthy(result.rateLimit.reset)
        THEN HeaderValue(adapter, result.rateLimit.reset, FALSE)
        ELSE IF h = "X-Budget-Limit" /\ result.budget.present
        THEN HeaderValue(adapter, result.budget.limit, FALSE)
        ELSE IF h = "X-Budget-Remaining" /\ result.budget.present
        THEN HeaderValue(adapter, result.budget.remaining, FALSE)
        ELSE IF h = "X-Budget-Reset" /\ result.budget.present
        THEN HeaderValue(adapter, Raw(result.budget.resetAt), TRUE)
        ELSE IF h = "X-Tokens-Used" /\ result.usage.present
        THEN HeaderValue(adapter, result.usage.tokensUsed, FALSE)
        ELSE IF h = "X-Tokens-Limit" /\ result.usage.present /\ result.usage.tokenLimit # Null
        THEN HeaderValue(adapter, result.usage.tokenLimit, FALSE)
        ELSE IF h = "X-Tokens-Remaining" /\ result.usage.present
                /\ result.usage.tokensRemaining # Null
        THEN HeaderValue(adapter, result.usage.tokensRemaining, FALSE)
        ELSE Unset]

\* the errors client.verify throws: what the client makes of an error
\* status, of a failed or aborted call, of an undecodable 2xx body and of a
\* throwing budget-warning callback
VerifyRethrown(e) == Rethrow(FailureMessage("verify"), e)

VerifyFailures ==
    { VerifyRethrown(Rethrow("Network request failed", HandleErrorResponse(st, HeaderAbsent, b))) :
        st \in {401, 402, 429, 500}, b \in Bodies }
    \cup { VerifyRethrown(Rethrow("Network request failed", e)) :
             e \in { ForeignError("TypeError", "fetch failed"),
                     ForeignError("AbortError", "This operation was aborted") } }
    \cup { VerifyRethrown(ForeignError("SyntaxError", "Unexpected end of JSON input")),
           VerifyRethrown(CallbackThrown) }

\* the configuration of the middleware: the extraction policy and the error
\* handler are the defaults or the integrator's, onSuccess is a callback slot
MwConfig(getKey, onError, onSuccess) ==
    [getKey |-> getKey, onError |-> onError, onSuccess |-> onSuccess]
NoMwConfig == MwConfig("default", "default", "none")

\* what an integrator's getKey can return
CustomKeys == { NoKey, Key(<<>>, "custom"), Key(Token, "custom") }

\* the response an integrator's onError writes
CustomResponse == Response(Undef, "custom", "custom", NoHeaders)

\* ------------------------------------------------------------------------
\* Provider wrappers (wrappers/openai.ts, wrappers/anthropic.ts)
\* ------------------------------------------------------------------------
Providers == {"openai", "anthropic"}

\* the usage field of a provider response: undefined, null or an object with
\* the token counts (prompt_tokens, completion_tokens, total_tokens for
\* openai; input_tokens, output_tokens for anthropic)
Usage(kind, input, output, total) ==
    [kind |-> kind, input |-> input, output |-> output, total |-> total]
NoUsage == Usage("undefined", Undef, Undef, Undef)

\* what the provider's create resolves with
ProviderResponse(present, usage, model) == [present |-> present, usage |-> usage, model |-> model]
NoProviderResponse == ProviderResponse(FALSE, NoUsage, UndefStr)

ProviderResponses ==
    { NoProviderResponse,
      ProviderResponse(TRUE, NoUsage, "m"),
      ProviderResponse(TRUE, Usage("null", Undef, Undef, Undef), "m"),
      ProviderResponse(TRUE, Usage("object", Undef, Undef, Undef), UndefStr),
      ProviderResponse(TRUE, Usage("object", Num(0), Num(0), Num(0)), "m"),
      ProviderResponse(TRUE, Usage("object", Num(5), Num(7), Undef), "m"),
      ProviderResponse(TRUE, Usage("object", Num(5), Undef, Num(5)), "m"),
      ProviderResponse(TRUE, Usage("object", Num(5), Num(7), Num(12)), "m") }

\* what the provider's create throws
ProviderErrors ==
    { ForeignError("BadRequestError", "400 invalid request"),
      ForeignError("APIConnectionError", "Connection error.") }

\* if (response?.usage)
CarriesUsageAlways(r) == TRUE

CarriesUsage(r) == r.present /\ r.usage.kind = "object"

\* v || 0
OrZero(v) == IF Truthy(v) THEN v ELSE Num(0)

\* the argument of holdify.reportUsage
UsageReport(inputTokens, outputTokens, totalTokens, model) ==
    [inputTokens |-> inputTokens, outputTokens |-> outputTokens,
     totalTokens |-> totalTokens, model |-> model]
NoUsageReport == UsageReport(Undef, Undef, Undef, UndefStr)

ReportOf(provider, r) ==
    UsageReport(OrZero(r.usage.input), OrZero(r.usage.output),
                IF provider = "openai" THEN r.usage.total ELSE Undef, r.model)

\* what holdify.reportUsage rejects with
ReportFailures ==
    { Rethrow(FailureMessage("reportUsage"),
              Rethrow("Network request failed", HandleErrorResponse(st, HeaderAbsent, b))) :
        st \in {401, 402, 429, 500}, b \in Bodies }
    \cup { Rethrow(FailureMessage("reportUsage"), Rethrow("Network request failed", e)) :
             e \in { ForeignError("TypeError", "fetch failed"),
                     ForeignError("AbortError", "This operation was aborted") } }
    \cup { Rethrow(FailureMessage("reportUsage"),
                   ForeignError("SyntaxError", "Unexpected end of JSON input")) }

\* .catch((err) => { console.warn(...) }): the handler returns, so nothing
\* is left of the rejection
RejectionRethrown(e) == e

RejectionAfterCatch(e) == NoError

\* ------------------------------------------------------------------------
\* State
\* ------------------------------------------------------------------------
VARIABLES
    ctor,        \* the last "new Holdify(config)": state, config, error thrown
    client,      \* the fields of the constructed instance
    warned,      \* console.warn about a custom baseUrl was emitted
    pc,          \* where the current operation is suspended or how it ended
    op,          \* the current invocation
    timer,       \* the setTimeout of request(): none, pending, cleared, fired
    elapsed,     \* time since request() started, 0 when no invocation is in progress
    aborted,     \* controller.signal.aborted
    response,    \* status and Retry-After of the response fetch resolved with
    fetchCalls,  \* calls of fetch() made by the current invocation
    outcome,     \* what the invocation returned or threw
    calls,       \* budget-warning callbacks invoked by the invocation, in order
    body,        \* the body response.json() was called on
    raised       \* the exception first raised inside the invocation

\* the cache instance
VARIABLES
    now,             \* Date.now()
    advances,        \* how many times the clock was seen to advance
    defaultTtl,      \* this.defaultTtl
    store,           \* this.store
    cleanupInterval, \* this.cleanupInterval: "set" while the interval is armed, "null"
    cleanupDue,      \* the instant from which the interval's next callback can run
    unswept,         \* the store of a cache given the same calls whose cleanup never runs
    lastSet,         \* per key: the latest set and what has become of it
    destroyed,       \* destroy() has been called
    event            \* the latest call on the cache and what it returned

cacheVars == <<now, advances, defaultTtl, store, cleanupInterval, cleanupDue,
               unswept, lastSet, destroyed, event>>

\* one inbound request going through a middleware adapter
VARIABLES
    mwPc,        \* idle, verifying (awaiting client.verify), responded (an error
                 \* response was written), rejected (the handler threw), continued
    adapter,     \* the adapter handling the request
    mwConfig,    \* the configuration given to the adapter
    req,         \* the inbound request
    mwKey,       \* key: what getKey returned
    verifyCalls, \* calls of client.verify made for the request
    verified,    \* what client.verify returned or threw
    passed,      \* the error handed to onError
    res,         \* the error response written
    headers,     \* the headers set on the response so far
    attached,    \* the result attached to the request context
    nexts        \* how many times the pipeline was continued

mwVars == <<mwPc, adapter, mwConfig, req, mwKey, verifyCalls, verified, passed, res,
            headers, attached, nexts>>

VARIABLES
    wPc,         \* idle, calling (awaiting the provider's create), returned, threw
    provider,    \* the wrapped provider
    provided,    \* what the provider's create resolved with or threw
    wOutcome,    \* what the caller of the wrapped create gets
    reports,     \* calls of holdify.reportUsage made by the wrapped call
    reported,    \* the argument of the latest of them
    report,      \* the promise it returned: none, pending, resolved, rejected
    logged,      \* the messages handed to console.warn
    unhandled    \* the rejection left after the .catch handler

wrapVars == <<wPc, provider, provided, wOutcome, reports, reported, report, logged, unhandled>>

extVars == <<cacheVars, mwVars, wrapVars>>

vars == <<ctor, client, warned, pc, op, timer, elapsed, aborted, response,
          fetchCalls, outcome, calls, body, raised, extVars>>

clientVars == <<ctor, client, warned, pc, op, timer, elapsed, aborted, response,
                fetchCalls, outcome, calls, body, raised, wrapVars>>

\* the result of a call on the cache: value is what get returned, found what
\* has or delete returned (for get: whether the value is defined)
Event(name, key, value, found) ==
    [op |-> name, key |-> key, value |-> value, found |-> found]
NoEvent == Event("none", "none", Absent, FALSE)
Did(name, key) == Event(name, key, Absent, FALSE)

NeverSet == [state |-> "never", value |-> Absent, expiresAt |-> 0]

\* no cache has been constructed
NoCache ==
    /\ now = 0
    /\ advances = 0
    /\ defaultTtl = DEFAULT_TTL
    /\ store = EmptyStore
    /\ cleanupInterval = "null"
    /\ cleanupDue = 0
    /\ unswept = EmptyStore
    /\ lastSet = [k \in CacheKeys |-> NeverSet]
    /\ destroyed = FALSE
    /\ event = NoEvent

NotVerified == [kind |-> "none", result |-> NoVerifyResult, error |-> NoError]
VerifyReturned(r) == [kind |-> "returned", result |-> r, error |-> NoError]
VerifyThrew(e) == [kind |-> "threw", result |-> NoVerifyResult, error |-> e]

\* no request has reached the middleware
MwInit ==
    /\ mwPc = "idle"
    /\ adapter = "express"
    /\ mwConfig = NoMwConfig
    /\ req = NoRequest
    /\ mwKey = NoKey
    /\ verifyCalls = 0
    /\ verified = NotVerified
    /\ passed = NoError
    /\ res = NoResponseWritten
    /\ headers = NoHeaders
    /\ attached = NoVerifyResult
    /\ nexts = 0

NoConfig == Config(<<>>, UndefStr, 0, "none")
NoClient == ConstructedClient(NoConfig)
Pending == [kind |-> "none", value |-> NoBody, error |-> NoError]
Returned(v) == [kind |-> "returned", value |-> v, error |-> NoError]
Threw(e) == [kind |-> "threw", value |-> NoBody, error |-> e]

ClientInit ==
    /\ ctor = [state |-> "none", config |-> NoConfig, error |-> NoError]
    /\ client = NoClient
    /\ warned = FALSE
    /\ pc = "idle"
    /\ op = NoInvocation
    /\ timer = "none"
    /\ elapsed = 0
    /\ aborted = FALSE
    /\ response = NoResponse
    /\ fetchCalls = 0
    /\ outcome = Pending
    /\ calls = <<>>
    /\ body = NoBody
    /\ raised = NoError

\* what the provider's create did
NotProvided == [kind |-> "none", response |-> NoProviderResponse, error |-> NoError]
ProviderReturned(r) == [kind |-> "returned", response |-> r, error |-> NoError]
ProviderThrew(e) == [kind |-> "threw", response |-> NoProviderResponse, error |-> e]

\* no wrapped call has been made
WrapInit ==
    /\ wPc = "idle"
    /\ provider = "openai"
    /\ provided = NotProvided
    /\ wOutcome = NotProvided
    /\ reports = 0
    /\ reported = NoUsageReport
    /\ report = "none"
    /\ logged = <<>>
    /\ unhandled = NoError

Init == ClientInit /\ NoCache /\ MwInit /\ WrapInit

opVars == <<pc, op, timer, elapsed, aborted, response, fetchCalls, outcome, calls, body, raised>>

\* new Holdify(config)
Construct ==
    \E config \in Configs :
        /\ ctor.state = "none"
        /\ LET e == ConstructorError(config)
           IN  IF e # NoError
               THEN /\ ctor' = [state |-> "threw", config |-> config, error |-> e]
                    /\ UNCHANGED <<client, warned>>
               ELSE /\ ctor' = [state |-> "ok", config |-> config, error |-> NoError]
                    /\ client' = ConstructedClient(config)
                    /\ warned' = WarnsCustomBaseUrl(config)
        /\ UNCHANGED opVars
        /\ UNCHANGED extVars

\* the catch block of the operation: e was raised in its try block
OpCatch(e) ==
    /\ pc' = "threw"
    /\ elapsed' = 0
    /\ outcome' = Threw(Rethrow(FailureMessage(op.name), e))

\* e is raised in the try block of the operation itself
Settle(e) ==
    /\ raised' = e
    /\ OpCatch(e)

\* e is raised inside request(): its catch block (265-270), then the
\* operation's catch block
RequestCatch(e) ==
    /\ raised' = e
    /\ timer' = ClearTimeout(timer)
    /\ OpCatch(Rethrow("Network request failed", e))

\* a public operation is called: it serializes its request body and calls
\* request(), which starts the timer and calls fetch
Invoke ==
    \E o \in Invocations :
        /\ ctor.state = "ok"
        /\ pc = "idle"
        /\ op' = o
        /\ elapsed' = 0
        /\ aborted' = FALSE
        /\ response' = NoResponse
        /\ calls' = <<>>
        /\ body' = NoBody
        /\ IF ~o.serializable
           THEN /\ raised' = ForeignError("TypeError", "Converting circular structure to JSON")
                /\ pc' = "threw"
                /\ outcome' = Threw(Rethrow(FailureMessage(o.name), raised'))
                /\ timer' = "none"
                /\ fetchCalls' = 0
           ELSE /\ raised' = NoError
                /\ pc' = "fetching"
                /\ outcome' = Pending
                /\ timer' = "pending"
                /\ fetchCalls' = 1
        /\ UNCHANGED <<ctor, client, warned>>
        /\ UNCHANGED extVars

\* time passes while the invocation is suspended on the network: waiting
\* for fetch to resolve or for the body to arrive
Tick ==
    /\ pc \in {"fetching", "errbody", "okbody"}
    /\ ~aborted
    /\ \E t \in (1..MaxTimeout) \cup (client.timeout..(client.timeout + MaxLate)) :
          /\ t > elapsed
          /\ elapsed' = t
    /\ UNCHANGED <<ctor, client, warned, pc, op, timer, aborted, response, fetchCalls, outcome, calls, body, raised>>
    /\ UNCHANGED extVars

\* setTimeout(() => controller.abort(), this.timeout) runs its callback
TimerFireNoAbort ==
    /\ timer = "pending"
    /\ elapsed >= client.timeout
    /\ timer' = "fired"
    /\ UNCHANGED <<ctor, client, warned, pc, op, elapsed, aborted, response, fetchCalls, outcome, calls, body, raised>>
    /\ UNCHANGED extVars

TimerFire ==
    /\ timer = "pending"
    /\ elapsed >= client.timeout
    /\ timer' = "fired"
    /\ aborted' = TRUE
    /\ UNCHANGED <<ctor, client, warned, pc, op, elapsed, response, fetchCalls, outcome, calls, body, raised>>
    /\ UNCHANGED extVars

\* the aborted fetch rejects with an AbortError
FetchAborted ==
    /\ pc = "fetching"
    /\ aborted
    /\ RequestCatch(ForeignError("AbortError", "This operation was aborted"))
    /\ UNCHANGED <<ctor, client, warned, op, aborted, response, fetchCalls, calls, body>>
    /\ UNCHANGED extVars

\* fetch rejects: DNS failure, refused connection, reset
FetchRejectedRetried ==
    /\ pc = "fetching"
    /\ ~aborted
    /\ fetchCalls' = fetchCalls + 1
    /\ UNCHANGED <<ctor, client, warned, pc, op, timer, elapsed, aborted, response, outcome, calls, body, raised>>
    /\ UNCHANGED extVars

FetchRejected ==
    /\ pc = "fetching"
    /\ ~aborted
    /\ RequestCatch(ForeignError("TypeError", "fetch failed"))
    /\ UNCHANGED <<ctor, client, warned, op, aborted, response, fetchCalls, calls, body>>
    /\ UNCHANGED extVars

\* fetch resolves with the response's status and headers (259-263); the
\* operations that do not decode the body return here
FetchResolved ==
    \E head \in ResponseHeads :
        /\ pc = "fetching"
        /\ ~aborted
        /\ timer' = ClearTimeout(timer)
        /\ response' = head
        /\ IF ~Ok(head.status) THEN pc' = "errbody" /\ UNCHANGED <<outcome, elapsed>>
           ELSE IF DecodesBody(op.name) THEN pc' = "okbody" /\ UNCHANGED <<outcome, elapsed>>
           ELSE pc' = "returned" /\ outcome' = Returned(NoBody) /\ elapsed' = 0
        /\ UNCHANGED <<ctor, client, warned, op, aborted, fetchCalls, calls, body, raised>>
        /\ UNCHANGED extVars

\* handleErrorResponse's "await response.json()" settles and it throws
ErrorBodyRead ==
    \E b \in Bodies :
        /\ pc = "errbody"
        /\ body' = b
        /\ RequestCatch(HandleErrorResponse(response.status, response.retryAfter, b))
        /\ UNCHANGED <<ctor, client, warned, op, aborted, response, fetchCalls, calls>>
        /\ UNCHANGED extVars

\* the operation's "await response.json()" on a 2xx response settles
OkBodyRead ==
    \E b \in Bodies :
        /\ pc = "okbody"
        /\ body' = b
        /\ IF b.json \in {"absent", "invalid"}
           THEN Settle(ForeignError("SyntaxError", "Unexpected end of JSON input")) /\ UNCHANGED calls
           ELSE IF op.name = "verify"
           THEN LET r == VerifyDecoded(op.key, op.onBudgetWarning, client.onBudgetWarning, b)
                IN  /\ calls' = r.calls
                    /\ IF r.thrown # NoError THEN Settle(r.thrown)
                       ELSE pc' = "returned" /\ outcome' = Returned(b) /\ elapsed' = 0 /\ UNCHANGED raised
           ELSE IF op.name = "analyzePrompt"
           THEN /\ UNCHANGED calls
                /\ IF AnalyzeDecoded(b) # NoError THEN Settle(AnalyzeDecoded(b))
                   ELSE pc' = "returned" /\ outcome' = Returned(b) /\ elapsed' = 0 /\ UNCHANGED raised
           ELSE /\ UNCHANGED <<calls, raised>>
                /\ pc' = "returned" /\ outcome' = Returned(b) /\ elapsed' = 0
        /\ UNCHANGED <<ctor, client, warned, op, timer, aborted, response, fetchCalls>>
        /\ UNCHANGED extVars

Next ==
    \/ Construct
    \/ Invoke
    \/ Tick
    \/ TimerFire
    \/ FetchAborted
    \/ FetchRejected
    \/ FetchResolved
    \/ ErrorBodyRead
    \/ OkBodyRead

Spec == Init /\ [][Next]_vars

\* what the runtime guarantees: time passes, a timer that is due runs its
\* callback, and an aborted fetch rejects; when or whether the remote
\* answers, and when or whether the body arrives, is up to the remote
SpecLive ==
    /\ Init /\ [][Next]_vars
    /\ WF_vars(Tick) /\ WF_vars(TimerFire) /\ WF_vars(FetchAborted)

\* ------------------------------------------------------------------------
\* The cache as a state machine
\* ------------------------------------------------------------------------
\* new Cache(defaultTtl): the store is empty and the interval is armed
CacheInit ==
    /\ now = 0
    /\ advances = 0
    /\ defaultTtl \in {DfltNum(d, DEFAULT_TTL) : d \in DefaultTtls}
    /\ store = EmptyStore
    /\ cleanupInterval = "set"
    /\ cleanupDue = CLEANUP_PERIOD
    /\ unswept = EmptyStore
    /\ lastSet = [k \in CacheKeys |-> NeverSet]
    /\ destroyed = FALSE
    /\ event = NoEvent

\* what becomes of the recorded sets when entries are removed by a call
Forget(how) ==
    [k \in CacheKeys |-> IF lastSet[k].state = "never" THEN lastSet[k]
                         ELSE [NeverSet EXCEPT !.state = how]]

\* time passes between two calls
Advance ==
    \E d \in Delays :
        /\ advances < MaxAdvances
        /\ advances' = advances + 1
        /\ now' = now + d
        /\ event' = NoEvent
        /\ UNCHANGED <<defaultTtl, store, cleanupInterval, cleanupDue, unswept, lastSet, destroyed>>
        /\ UNCHANGED <<clientVars, mwVars>>

CacheSet ==
    \E key \in CacheKeys, value \in CacheValues, ttlArg \in Ttls :
        LET ttl == DfltNum(ttlArg, defaultTtl)
        IN  /\ store' = Set(store, key, value, ttl, now)
            /\ unswept' = Set(unswept, key, value, ttl, now)
            /\ lastSet' = [lastSet EXCEPT ![key] =
                              [state |-> "live", value |-> value, expiresAt |-> now + ttl]]
            /\ event' = Did("set", key)
            /\ UNCHANGED <<now, advances, defaultTtl, cleanupInterval, cleanupDue, destroyed>>
            /\ UNCHANGED <<clientVars, mwVars>>

CacheGet ==
    \E key \in CacheKeys :
        LET r == Get(store, key, now)
            u == Get(unswept, key, now)
        IN  /\ store' = r.store
            /\ unswept' = u.store
            /\ event' = Event("get", key, r.value, r.value # Absent)
            /\ UNCHANGED <<now, advances, defaultTtl, cleanupInterval, cleanupDue, lastSet, destroyed>>
            /\ UNCHANGED <<clientVars, mwVars>>

CacheHas ==
    \E key \in CacheKeys :
        LET r == Has(store, key, now)
            u == Has(unswept, key, now)
        IN  /\ store' = r.store
            /\ unswept' = u.store
            /\ event' = Event("has", key, Absent, r.value)
            /\ UNCHANGED <<now, advances, defaultTtl, cleanupInterval, cleanupDue, lastSet, destroyed>>
            /\ UNCHANGED <<clientVars, mwVars>>

CacheDelete ==
    \E key \in CacheKeys :
        LET r == Delete(store, key)
            u == Delete(unswept, key)
        IN  /\ store' = r.store
            /\ unswept' = u.store
            /\ lastSet' = [lastSet EXCEPT ![key] = Forget("removed")[key]]
            /\ event' = Event("delete", key, Absent, r.value)
            /\ UNCHANGED <<now, advances, defaultTtl, cleanupInterval, cleanupDue, destroyed>>
            /\ UNCHANGED <<clientVars, mwVars>>

CacheClear ==
    /\ store' = EmptyStore
    /\ unswept' = EmptyStore
    /\ lastSet' = Forget("removed")
    /\ event' = Did("clear", "none")
    /\ UNCHANGED <<now, advances, defaultTtl, cleanupInterval, cleanupDue, destroyed>>
    /\ UNCHANGED <<clientVars, mwVars>>

CacheDestroy ==
    /\ cleanupInterval' = IF cleanupInterval # "null" THEN ClearInterval(cleanupInterval)
                          ELSE cleanupInterval
    /\ store' = EmptyStore
    /\ unswept' = EmptyStore
    /\ lastSet' = Forget("destroyed")
    /\ destroyed' = TRUE
    /\ event' = Did("destroy", "none")
    /\ UNCHANGED <<now, advances, defaultTtl, cleanupDue>>
    /\ UNCHANGED <<clientVars, mwVars>>

\* the callback of setInterval(() => this.cleanup(), 60000) runs
CacheCleanup ==
    /\ cleanupInterval # "null"
    /\ now >= cleanupDue
    /\ store' = Cleanup(store, now)
    /\ cleanupDue' = now + CLEANUP_PERIOD
    /\ event' = Did("cleanup", "none")
    /\ UNCHANGED <<now, advances, defaultTtl, cleanupInterval, unswept, lastSet, destroyed>>
    /\ UNCHANGED <<clientVars, mwVars>>

NextCache ==
    \/ Advance
    \/ CacheSet
    \/ CacheGet
    \/ CacheHas
    \/ CacheDelete
    \/ CacheClear
    \/ CacheDestroy
    \/ CacheCleanup

InitCache == ClientInit /\ CacheInit /\ MwInit /\ WrapInit

SpecCache == InitCache /\ [][NextCache]_vars

\* ------------------------------------------------------------------------
\* The middleware handler as a state machine: one inbound request
\* ------------------------------------------------------------------------
\* the headers in the order in which the handler sets them
HeaderOrder == <<"X-RateLimit-Limit", "X-RateLimit-Remaining", "X-RateLimit-Reset",
                 "X-Budget-Limit", "X-Budget-Remaining", "X-Budget-Reset",
                 "X-Tokens-Used", "X-Tokens-Limit", "X-Tokens-Remaining">>

\* the headers that were set when the first res.setHeader(name, undefined) throws
SetBeforeThrow(hs) ==
    LET first == CHOOSE i \in 1..Len(HeaderOrder) :
                    /\ hs[HeaderOrder[i]] = Undef
                    /\ \A j \in 1..(i - 1) : hs[HeaderOrder[j]] # Undef
    IN  [h \in HeaderNames |->
            IF \E j \in 1..(first - 1) : HeaderOrder[j] = h THEN hs[h] ELSE Unset]

\* express has an onSuccess callback slot, hono and nextjs have none
MwConfigs(a) ==
    { MwConfig(g, e, s) : g \in {"default", "custom"}, e \in {"default", "custom"},
                          s \in IF a = "express" THEN Callbacks ELSE {"none"} }

\* onError(error, ...): the response written by the handler of configuration
\* c; express and hono keep the headers already set on the response, nextjs
\* builds a new response
Respond(a, c, error, prior) ==
    LET r == IF c.onError = "default" THEN defaultOnError(a, error) ELSE CustomResponse
        kept == IF a = "nextjs" THEN NoHeaders ELSE prior
    IN  /\ passed' = error
        /\ res' = r
        /\ headers' = IF r.written
                      THEN [h \in HeaderNames |-> IF r.headers[h] # Unset THEN r.headers[h] ELSE kept[h]]
                      ELSE prior
        /\ mwPc' = IF r.written THEN "responded" ELSE "rejected"

\* a request reaches the handler: getKey, then either the MISSING_KEY
\* response or the call of client.verify
MwRequest ==
    \E a \in Adapters, r \in Requests, custom \in CustomKeys :
        \E c \in MwConfigs(a) :
            /\ mwPc = "idle"
            /\ c.getKey = "default" => custom = NoKey
            /\ c.getKey = "custom" => r = NoRequest
            /\ adapter' = a
            /\ mwConfig' = c
            /\ req' = r
            /\ mwKey' = IF c.getKey = "default" THEN defaultGetKey(a, r) ELSE custom
            /\ IF Missing(mwKey')
               THEN /\ Respond(a, c, HoldifyError("MISSING_KEY", "API key is required", 401), NoHeaders)
                    /\ verifyCalls' = 0
               ELSE /\ mwPc' = "verifying"
                    /\ verifyCalls' = 1
                    /\ UNCHANGED <<passed, res, headers>>
            /\ UNCHANGED <<verified, attached, nexts>>
            /\ UNCHANGED <<clientVars, cacheVars>>

\* client.verify throws: the catch block of the handler
MwVerifyThrew ==
    \E e \in VerifyFailures :
        /\ mwPc = "verifying"
        /\ verified' = VerifyThrew(e)
        /\ Respond(adapter, mwConfig, Caught(e), NoHeaders)
        /\ UNCHANGED <<adapter, mwConfig, req, mwKey, verifyCalls, attached, nexts>>
        /\ UNCHANGED <<clientVars, cacheVars>>

RejectedNever(r) == FALSE

\* if (!result.valid)
Rejected(r) == ~r.valid

\* what the downstream handler throws out of next()
NextThrown == ForeignError("Error", "handler failed")

\* client.verify returns: the INVALID_KEY response, or the result is
\* attached, the headers are set, onSuccess is called and the pipeline is
\* continued; what is thrown on the way reaches the catch block
MwVerifyReturned ==
    \E r \in VerifyResults :
        /\ mwPc = "verifying"
        /\ verified' = VerifyReturned(r)
        /\ IF Rejected(r)
           THEN /\ Respond(adapter, mwConfig,
                           HoldifyError("INVALID_KEY", "API key is invalid or expired", 401), NoHeaders)
                /\ UNCHANGED <<attached, nexts>>
           ELSE LET hs == SuccessHeaders(adapter, r)
                IN  /\ attached' = r
                    /\ IF SetHeaderThrows(hs)
                       THEN /\ Respond(adapter, mwConfig,
                                       Caught(ForeignError("TypeError", "Invalid value for header")),
                                       SetBeforeThrow(hs))
                            /\ UNCHANGED nexts
                       ELSE IF mwConfig.onSuccess = "throws"
                       THEN /\ Respond(adapter, mwConfig, Caught(CallbackThrown), hs)
                            /\ UNCHANGED nexts
                       ELSE /\ headers' = hs
                            /\ nexts' = nexts + 1
                            /\ mwPc' = "continued"
                            /\ UNCHANGED <<passed, res>>
        /\ UNCHANGED <<adapter, mwConfig, req, mwKey, verifyCalls>>
        /\ UNCHANGED <<clientVars, cacheVars>>

\* the rest of the pipeline returns and the handler ends
MwNextReturned ==
    /\ mwPc = "continued"
    /\ mwPc' = "finished"
    /\ UNCHANGED <<adapter, mwConfig, req, mwKey, verifyCalls, verified, passed, res,
                   headers, attached, nexts>>
    /\ UNCHANGED <<clientVars, cacheVars>>

\* next() throws: express and hono call it inside the try block, so the
\* catch block answers; nextjs returns NextResponse.next() and calls nothing
MwNextThrew ==
    /\ mwPc = "continued"
    /\ adapter \in {"express", "hono"}
    /\ Respond(adapter, mwConfig, Caught(NextThrown), headers)
    /\ UNCHANGED <<adapter, mwConfig, req, mwKey, verifyCalls, verified, attached, nexts>>
    /\ UNCHANGED <<clientVars, cacheVars>>

NextMiddleware ==
    \/ MwRequest
    \/ MwVerifyThrew
    \/ MwVerifyReturned
    \/ MwNextReturned
    \/ MwNextThrew

SpecMiddleware == Init /\ [][NextMiddleware]_vars

\* ------------------------------------------------------------------------
\* A wrapped provider call as a state machine: one call of create
\* ------------------------------------------------------------------------
wrapRest == <<ctor, client, warned, pc, op, timer, elapsed, aborted, response,
              fetchCalls, outcome, calls, body, raised, cacheVars, mwVars>>

\* wrapped.chat.completions.create(...) / wrapped.messages.create(...): the
\* wrapper calls the provider's create and awaits it
WrapCreate ==
    \E p \in Providers :
        /\ wPc = "idle"
        /\ provider' = p
        /\ wPc' = "calling"
        /\ UNCHANGED <<provided, wOutcome, reports, reported, report, logged, unhandled>>
        /\ UNCHANGED wrapRest

\* the provider's create rejects: the await throws out of the wrapper
WrapProviderThrew ==
    \E e \in ProviderErrors :
        /\ wPc = "calling"
        /\ provided' = ProviderThrew(e)
        /\ wOutcome' = ProviderThrew(e)
        /\ wPc' = "threw"
        /\ UNCHANGED <<provider, reports, reported, report, logged, unhandled>>
        /\ UNCHANGED wrapRest

\* the provider's create resolves: reportUsage is called when the response
\* carries usage, its promise is not awaited, and the result is returned
WrapProviderReturned ==
    \E r \in ProviderResponses :
        /\ wPc = "calling"
        /\ provided' = ProviderReturned(r)
        /\ IF CarriesUsage(r)
           THEN /\ reports' = reports + 1
                /\ reported' = ReportOf(provider, r)
                /\ report' = "pending"
           ELSE UNCHANGED <<reports, reported, report>>
        /\ wOutcome' = ProviderReturned(r)
        /\ wPc' = "returned"
        /\ UNCHANGED <<provider, logged, unhandled>>
        /\ UNCHANGED wrapRest

\* the promise of reportUsage resolves
WrapReportResolved ==
    /\ report = "pending"
    /\ report' = "resolved"
    /\ UNCHANGED <<wPc, provider, provided, wOutcome, reports, reported, logged, unhandled>>
    /\ UNCHANGED wrapRest

\* the promise of reportUsage rejects: the .catch handler logs the message
WrapReportRejected ==
    \E e \in ReportFailures :
        /\ report = "pending"
        /\ report' = "rejected"
        /\ logged' = Append(logged, e.message)
        /\ unhandled' = RejectionAfterCatch(e)
        /\ UNCHANGED <<wPc, provider, provided, wOutcome, reports, reported>>
        /\ UNCHANGED wrapRest

NextWrapper ==
    \/ WrapCreate
    \/ WrapProviderThrew
    \/ WrapProviderReturned
    \/ WrapReportResolved
    \/ WrapReportRejected

SpecWrapper == Init /\ [][NextWrapper]_vars

\* ------------------------------------------------------------------------
\* Properties
\* ------------------------------------------------------------------------
RecognizedPrefix(k) ==
    \/ StartsWith(k, PFX_PROJ_LIVE)
    \/ StartsWith(k, PFX_PROJ_TEST)
    \/ StartsWith(k, PFX_LIVE)
    \/ StartsWith(k, PFX_TEST)

Settled == pc \in {"returned", "threw"}
GotErrorStatus == response # NoResponse /\ ~Ok(response.status)
ErrorBodyWasRead == GotErrorStatus /\ pc = "threw" /\ body # NoBody

\* C1: constructing a client fails with a generic SDK error, and no network
\* call is made, exactly when the credential is empty or starts with none of
\* the four recognized prefixes; otherwise the instance is constructed.
C1_ConstructionValidatesCredential ==
    ctor.state # "none" =>
        /\ (ctor.state = "threw") <=>
              (ctor.config.apiKey = <<>> \/ ~RecognizedPrefix(ctor.config.apiKey))
        /\ ctor.state = "threw" =>
              /\ ctor.error.name = "HoldifySDKError"
              /\ ctor.error.sdk
              /\ fetchCalls = 0 /\ timer = "none" /\ pc = "idle"
              /\ client = NoClient
        /\ ctor.state = "ok" => client.apiKey = ctor.config.apiKey

C1_Witness_BadPrefixRejected ==
    /\ ctor.state = "threw"
    /\ ctor.config.apiKey = <<"x">> \o PFX_LIVE \o Chars_abc

\* the failure kind the status selects when the body names no token limit
KindOfStatus(status) ==
    CASE status = 401 -> "InvalidKeyError"
      [] status = 402 -> "BudgetExceededError"
      [] status = 429 -> "RateLimitError"
      [] OTHER -> "HoldifySDKError"

\* C2: for every non-2xx response the failure kind is a function of the
\* status and, for 429, of the body's error code: 401 InvalidKey; 402
\* BudgetExceeded with the body's limit, spent, remaining, resetAt; 429 with
\* TOKEN_LIMIT_EXCEEDED TokenLimitExceeded with the body's limit, requested,
\* remaining; any other 429 RateLimit; otherwise a generic SDK error whose
\* status code is the response status.
C2_FailureKindByStatus ==
    ErrorBodyWasRead =>
        LET e == outcome.error
            tokenLimit == response.status = 429 /\ ErrField(body, "code") = TOKEN_LIMIT_EXCEEDED
        IN  /\ e.name = IF tokenLimit THEN "TokenLimitExceededError" ELSE KindOfStatus(response.status)
            /\ response.status = 402 =>
                  /\ e.limit = ErrField(body, "limit") /\ e.spent = ErrField(body, "spent")
                  /\ e.remaining = ErrField(body, "remaining") /\ e.resetAt = ErrField(body, "resetAt")
            /\ tokenLimit =>
                  /\ e.limit = ErrField(body, "limit") /\ e.requested = ErrField(body, "requested")
                  /\ e.remaining = ErrField(body, "remaining")
            /\ response.status \notin {401, 402, 429} => e.statusCode = Num(response.status)

\* C3: the RateLimit error's retryAfter is the number of seconds parsed from
\* the Retry-After header, and 60 when the header is absent or cannot be
\* parsed as a number.
C3_RetryAfterDefaultsTo60 ==
    (ErrorBodyWasRead /\ outcome.error.name = "RateLimitError") =>
        outcome.error.retryAfter =
            IF ~response.retryAfter.present \/ ParseInt(response.retryAfter.value) = NaN
            THEN Num(60)
            ELSE ParseInt(response.retryAfter.value)

\* the body is absent, not JSON, or JSON without the expected error object
LacksErrorObject(b) == b.json # "object" \/ b.errorKind # "object"

DefaultMessage(kind) ==
    CASE kind = "InvalidKeyError" -> "Invalid API key"
      [] kind = "BudgetExceededError" -> "Budget limit exceeded"
      [] kind = "RateLimitError" -> "Rate limit exceeded"
      [] OTHER -> "Request failed"

\* C4: a non-2xx response whose body is absent, unparseable, or parseable
\* without the expected error object (JSON null included) still fails with
\* the kind its status selects, carrying that kind's default message.
C4_MalformedBodyKeepsStatusKind ==
    (ErrorBodyWasRead /\ LacksErrorObject(body)) =>
        /\ outcome.error.name = KindOfStatus(response.status)
        /\ outcome.error.message = DefaultMessage(KindOfStatus(response.status))

TaxonomyKinds == {"HoldifySDKError", "InvalidKeyError", "RateLimitError", "NetworkError",
                  "TokenLimitExceededError", "BudgetExceededError", "PromptBlockedError"}

\* C5: every failure reaches the caller as a taxonomy kind: an exception that
\* is not one is surfaced as a NetworkError carrying it as its cause, and an
\* error that already is one is passed through unchanged, never re-wrapped.
C5_FailuresAreTaxonomyKinds ==
    pc = "threw" =>
        /\ outcome.kind = "threw"
        /\ outcome.error.sdk /\ outcome.error.name \in TaxonomyKinds
        /\ raised # NoError
        /\ IF raised.sdk
           THEN outcome.error = raised
           ELSE /\ outcome.error.name = "NetworkError"
                /\ outcome.error.cause = raised.name
                /\ outcome.error.causeMessage = raised.message
                /\ outcome.error.cause \notin TaxonomyKinds

C5_Witness_StatusErrorPassedThrough ==
    /\ pc = "threw"
    /\ raised.name = "InvalidKeyError"
    /\ outcome.error = raised

\* C6: an invocation issues at most one outbound call whatever its outcome; a
\* failed call is never re-issued.
C6_AtMostOneCall ==
    /\ fetchCalls <= 1
    /\ (pc = "threw" /\ response = NoResponse /\ op.serializable) => fetchCalls = 1

C6_Witness_FailedCallNotReissued ==
    /\ pc = "threw"
    /\ raised.message = "fetch failed"
    /\ fetchCalls = 1

\* C7: the timer stays armed for as long as the call is in flight, and when
\* the timeout elapses before the call completes the call is aborted and the
\* operation fails with a NetworkError: it returns no result and fails with
\* no other kind.
C7_TimeoutAbortsWithNetworkError ==
    /\ (pc = "fetching" /\ ~aborted) => timer = "pending"
    /\ timer = "fired" =>
          /\ pc = "fetching" => elapsed >= client.timeout
          /\ aborted
          /\ response = NoResponse
          /\ pc \in {"fetching", "threw"}
          /\ outcome.kind # "returned"
          /\ pc = "threw" =>
                /\ outcome.error.name = "NetworkError"
                /\ outcome.error.cause = "AbortError"

C7_Witness_TimedOut ==
    /\ timer = "fired"
    /\ pc = "threw"
    /\ outcome.error.name = "NetworkError"
    /\ client.timeout = DEFAULT_TIMEOUT

\* C8: once a request has completed (2xx, error status or transport
\* failure) its timer is cancelled: it is no longer pending, and a timer that
\* fired did so while the call was still in flight.
C8_CompletedRequestHasNoPendingTimer ==
    /\ pc \notin {"idle", "fetching"} => timer # "pending"
    /\ response # NoResponse => (timer = "cleared" /\ ~aborted)
    /\ (pc = "threw" /\ raised.message = "fetch failed") => (timer = "cleared" /\ ~aborted)

C8_Witness_TransportFailureClearsTimer ==
    /\ pc = "threw"
    /\ raised.message = "fetch failed"
    /\ timer = "cleared"

\* a verify whose 2xx response was decoded and has budget.warningExceeded
WarningVerify ==
    /\ op.name = "verify"
    /\ Settled
    /\ response # NoResponse /\ Ok(response.status)
    /\ body.json = "object" /\ body.budgetKind = "object" /\ body.budget.warningExceeded

\* C9: for a verify whose 2xx response has budget.warningExceeded, the
\* per-call callback (if supplied) and the client-wide callback (if
\* configured) are each invoked exactly once, the per-call one first, with
\* the same warning info.
C9_BothCallbacksOnceInOrder ==
    WarningVerify =>
        LET info == WarningInfo(body.budget, op.key)
        IN  calls = (IF op.onBudgetWarning = "none" THEN <<>> ELSE <<CallbackCall("perCall", info)>>)
                    \o (IF client.onBudgetWarning = "none" THEN <<>> ELSE <<CallbackCall("global", info)>>)

\* C10: a budget-warning callback that throws during a verify whose remote
\* call succeeded does not make verify fail: verify returns the result.
C10_CallbackFailureIsolated ==
    (WarningVerify /\ "throws" \in {op.onBudgetWarning, client.onBudgetWarning}) =>
        /\ pc = "returned"
        /\ outcome = Returned(body)

\* a verify whose 2xx response body was decoded by response.json()
DecodedVerify ==
    /\ op.name = "verify"
    /\ Settled
    /\ response # NoResponse /\ Ok(response.status)
    /\ body.json \notin {"none", "absent", "invalid"}

\* C11: on a 2xx verify response verify returns the decoded body as its
\* result whether or not budget.warningExceeded is set; the warning callbacks
\* are invoked only when budget.warningExceeded is true: never when it is
\* false, when the budget snapshot is absent, or when verify fails.
C11_WarningIsNotAFailure ==
    /\ DecodedVerify => (pc = "returned" /\ outcome = Returned(body))
    /\ calls # <<>> => WarningVerify

\* an analyzePrompt whose 2xx response body decoded to an object
DecodedAnalysis ==
    /\ op.name = "analyzePrompt"
    /\ Settled
    /\ response # NoResponse /\ Ok(response.status)
    /\ body.json = "object"

\* C12: analyzePrompt fails with PromptBlocked carrying the body's riskScore
\* and threats whenever the 2xx response body has blocked = true, and returns
\* the analysis result unchanged whenever blocked is false.
C12_BlockedPromptFails ==
    DecodedAnalysis =>
        IF body.blocked
        THEN /\ pc = "threw"
             /\ outcome.error.name = "PromptBlockedError"
             /\ outcome.error.code = "PROMPT_BLOCKED"
             /\ outcome.error.riskScore = body.riskScore
             /\ outcome.error.threats = body.threats
        ELSE /\ pc = "returned"
             /\ outcome = Returned(body)

C12_Witness_BlockedOn200 ==
    /\ DecodedAnalysis
    /\ response.status = 200
    /\ body.blocked
    /\ body.threats = Threats(<<"prompt_injection", "jailbreak">>)
    /\ pc = "threw"

\* C13: reportUsage never fails with BudgetExceeded or TokenLimitExceeded:
\* whatever the remote service answers about limits being exceeded by the
\* reported usage, reportUsage returns a usage-report result.
C13_ReportUsageNeverFailsOnLimits ==
    (op.name = "reportUsage" /\ Settled /\ body # NoBody) =>
        /\ outcome.error.name \notin {"BudgetExceededError", "TokenLimitExceededError"}
        /\ (response.status \in {402, 429} /\ body.json = "object") => pc = "returned"

\* the latest call was get(k) and the latest set of k has not been undone by
\* a delete, clear or destroy
GotLive == event.op = "get" /\ lastSet[event.key].state = "live"

\* C14 as stated: for every cache entry, get(key) returns absent at every
\* instant now with now >= expiresAt (expiresAt = set-time + ttl), whether or
\* not the background sweep has run since the entry expired.
C14_AbsentFromExpiresAt ==
    (GotLive /\ now >= lastSet[event.key].expiresAt) => event.value = Absent

\* C14 amended: for every cache entry, get(key) returns absent at every
\* instant now with now > expiresAt (expiresAt = set-time + ttl), whether or
\* not the background sweep has run since the entry expired; at the instant
\* now = expiresAt the entry is still returned.
C14_AbsentAfterExpiresAt ==
    /\ (GotLive /\ now > lastSet[event.key].expiresAt) => event.value = Absent
    /\ (GotLive /\ now = lastSet[event.key].expiresAt) => event.value = lastSet[event.key].value

\* an expired entry is read before any sweep has run
C14_Witness_ExpiredBeforeSweep ==
    /\ GotLive
    /\ lastSet[event.key].value = "a"
    /\ now > lastSet[event.key].expiresAt
    /\ cleanupDue = CLEANUP_PERIOD
    /\ event.value = Absent

\* C15: after set(key, value, ttl), every get(key) made before the entry's
\* expiry, with no delete, clear, destroy or later set of the same key in
\* between, returns exactly that value, whatever was done to other keys and
\* whatever sweeps ran.
C15_RoundTripBeforeExpiry ==
    (GotLive /\ now < lastSet[event.key].expiresAt) => event.value = lastSet[event.key].value

\* an entry set before the first sweep is read back after a sweep has run
C15_Witness_ReadBackAfterSweep ==
    /\ GotLive
    /\ lastSet[event.key].expiresAt = DEFAULT_TTL
    /\ cleanupDue > CLEANUP_PERIOD
    /\ event.value = "a"

\* C16: after destroy(), get returns absent for every key that was set
\* before the destroy, and the background sweep never executes again.
C16_DestroyClearsAndStopsSweep ==
    /\ (event.op = "get" /\ lastSet[event.key].state = "destroyed") => event.value = Absent
    /\ event.op = "cleanup" => ~destroyed
    /\ destroyed => cleanupInterval = "null"

\* a key set before the destroy is read after it, at an instant at which
\* the sweep would have been due
C16_Witness_ReadAfterDestroy ==
    /\ destroyed
    /\ event.op = "get"
    /\ lastSet[event.key].state = "destroyed"
    /\ now >= cleanupDue

\* C17: the sweep is not needed for the correctness of reads: in every
\* state reached by set, get, has, delete and clear with time advancing, get
\* and has answer the same on the cache whose sweep runs at arbitrary moments
\* as on the cache given the same calls whose sweep never runs.
C17_SweepNotNeededForReads ==
    \A k \in CacheKeys :
        /\ Get(store, k, now).value = Get(unswept, k, now).value
        /\ Has(store, k, now).value = Has(unswept, k, now).value

\* a read made while the swept store has lost an entry the unswept one keeps
C17_Witness_ReadAfterEviction ==
    /\ event.op \in {"get", "has"}
    /\ store # unswept
    /\ cleanupDue > CLEANUP_PERIOD

\* the extraction policy found no credential: undefined or the empty string
NoCredential == mwKey.found => mwKey.value = <<>>

\* C18: when the extraction policy finds no credential on an inbound
\* request, the middleware produces a MISSING_KEY error response with status
\* 401 and no verify call is made for that request.
C18_MissingKeyRejectedBeforeVerify ==
    (mwPc # "idle" /\ NoCredential) =>
        /\ verifyCalls = 0 /\ verified = NotVerified /\ fetchCalls = 0
        /\ nexts = 0
        /\ passed = HoldifyError("MISSING_KEY", "API key is required", 401)
        /\ mwConfig.onError = "default" =>
              /\ mwPc = "responded"
              /\ res.written /\ res.status = Num(401) /\ res.code = "MISSING_KEY"

\* an Authorization header without a token and no other source
C18_Witness_EmptyBearerRejected ==
    /\ mwPc = "responded"
    /\ req = Request(Header(BEARER), HeaderAbsent, HeaderAbsent)
    /\ mwConfig = NoMwConfig
    /\ res.code = "MISSING_KEY"

\* the extraction the claim describes, "present" being read either as "the
\* source is there" or as "the source is there and not empty"
ExtractionAsStated(nonEmpty, r) ==
    LET Present(source) == source.present /\ (nonEmpty => source.value # <<>>)
    IN  IF r.authorization.present /\ StartsWith(r.authorization.value, BEARER)
        THEN Key(SubSeq(r.authorization.value, 8, Len(r.authorization.value)), "authorization")
        ELSE IF Present(r.xApiKey) THEN Key(r.xApiKey.value, "x-api-key")
        ELSE IF Present(r.apiKey) THEN Key(r.apiKey.value, "query")
        ELSE NoKey

\* C19: default extraction returns the token of the Authorization header
\* when it starts with 'Bearer ', otherwise the x-api-key header when
\* present, otherwise the api_key query parameter when present, otherwise no
\* credential, a later source being consulted only when every earlier one
\* yielded nothing: the three adapters extract what this order says from
\* the request, under one reading of "present".
C19_DefaultExtractionOrder ==
    mwPc # "idle" =>
        \/ \A a \in Adapters : defaultGetKey(a, req) = ExtractionAsStated(FALSE, req)
        \/ \A a \in Adapters : defaultGetKey(a, req) = ExtractionAsStated(TRUE, req)

\* C20: for every kind of failure raised by client.verify the default error
\* handling responds with the status and code of that kind (401 InvalidKey,
\* 429 RateLimitExceeded and TokenLimitExceeded, 402 BudgetExceeded), with
\* the X-Tokens-* or X-Budget-* headers set for the latter two kinds.
C20_VerifyFailureKeepsKindStatus ==
    (verified.kind = "threw" /\ mwConfig.onError = "default") =>
        LET e == verified.error
        IN  /\ mwPc = "responded" /\ res.written
            /\ res.status = StatusOr500(e.statusCode)
            /\ res.code = e.code
            /\ e.name = "TokenLimitExceededError" =>
                  /\ headers["X-Tokens-Limit"] # Unset
                  /\ headers["X-Tokens-Remaining"] # Unset
            /\ e.name = "BudgetExceededError" =>
                  /\ headers["X-Budget-Limit"] # Unset
                  /\ headers["X-Budget-Remaining"] # Unset
                  /\ headers["X-Budget-Reset"] # Unset

\* client.verify returned a result with valid = true
ValidResult == verified.kind = "returned" /\ verified.result.valid

\* C21: on every verify result with valid = true the middleware sets the
\* three X-RateLimit-* headers from the rate-limit snapshot, the X-Budget-*
\* and X-Tokens-* headers when the budget and usage snapshots are present,
\* attaches the result to the request context, and only then continues the
\* request pipeline.
C21_ValidResultSetsHeadersThenContinues ==
    ValidResult =>
        LET r == verified.result
        IN  /\ nexts = 1
            /\ attached = r
            /\ r.rateLimit.present =>
                  /\ headers["X-RateLimit-Limit"] = HeaderValue(adapter, r.rateLimit.limit, FALSE)
                  /\ headers["X-RateLimit-Remaining"] = HeaderValue(adapter, r.rateLimit.remaining, FALSE)
                  /\ headers["X-RateLimit-Reset"] = HeaderValue(adapter, r.rateLimit.reset, FALSE)
            /\ r.budget.present =>
                  /\ headers["X-Budget-Limit"] # Unset
                  /\ headers["X-Budget-Remaining"] # Unset
                  /\ headers["X-Budget-Reset"] # Unset
            /\ r.usage.present =>
                  /\ headers["X-Tokens-Used"] # Unset
                  /\ headers["X-Tokens-Limit"] # Unset
                  /\ headers["X-Tokens-Remaining"] # Unset

\* C25: the pipeline is continued only after client.verify returned a
\* result with valid = true; when the key is missing, when verify throws or
\* when the result has valid = false (answered 401 INVALID_KEY), the
\* pipeline is not continued and no result is attached.
C25_ContinuesOnlyAfterValidResult ==
    /\ nexts > 0 => (verified.kind = "returned" /\ verified.result.valid)
    /\ (mwPc # "idle" /\ ~(verified.kind = "returned" /\ verified.result.valid)) =>
            /\ mwPc \in {"verifying", "responded", "rejected"}
            /\ nexts = 0
            /\ attached = NoVerifyResult
    /\ (verified.kind = "returned" /\ ~verified.result.valid) =>
            /\ passed = HoldifyError("INVALID_KEY", "API key is invalid or expired", 401)
            /\ mwConfig.onError = "default" =>
                    (res.written /\ res.status = Num(401) /\ res.code = "INVALID_KEY")

C25_Witness_InvalidResultAnswered401 ==
    /\ verified.kind = "returned" /\ ~verified.result.valid
    /\ mwPc = "responded" /\ res.status = Num(401) /\ nexts = 0

\* C29: for one request the middleware never both continues the pipeline
\* and writes an error response, also when onSuccess or the downstream
\* handler throws.
C29_NeverContinuesAndAnswers ==
    nexts > 0 => (~res.written /\ passed = NoError)

\* one of the three default sources of request r carries a non-empty credential
CarriesCredential(r) ==
    \/ /\ r.authorization.present
       /\ StartsWith(r.authorization.value, BEARER)
       /\ Len(r.authorization.value) > Len(BEARER)
    \/ r.xApiKey.present /\ r.xApiKey.value # <<>>
    \/ r.apiKey.present /\ r.apiKey.value # <<>>

\* C30: whenever one of the three default sources carries a non-empty
\* credential, default extraction yields a non-empty credential and the
\* request is not rejected as MISSING_KEY; an Authorization header without
\* a token does not hide a credential in x-api-key or api_key.
C30_CredentialInAnySourceIsFound ==
    (mwPc # "idle" /\ mwConfig.getKey = "default" /\ CarriesCredential(req)) =>
        /\ mwKey.found /\ mwKey.value # <<>>
        /\ passed.code # "MISSING_KEY"

\* the hint the claim describes for key k
HintAsStated(k) ==
    IF Len(k) <= 12 THEN <<"*", "*", "*">>
    ELSE <<k[1], k[2], k[3], k[4], k[5], k[6], k[7], k[8]>> \o <<".", ".", ".">>
         \o <<k[Len(k) - 3], k[Len(k) - 2], k[Len(k) - 1], k[Len(k)]>>

\* C24: the key hint handed to a budget-warning callback is fully masked
\* when the key has at most 12 characters and is otherwise the first 8
\* characters, an ellipsis and the last 4 characters; the full key is never
\* passed to a callback.
C24_CallbackNeverSeesFullKey ==
    \A i \in 1..Len(calls) :
        /\ calls[i].info.keyHint = HintAsStated(op.key)
        /\ calls[i].info.keyHint # op.key

\* the expiry of entry e has passed at instant t
ExpiryPassed(e, t) == e.present /\ t > e.expiresAt

\* C27: a sweep removes exactly the entries whose expiry has passed at the
\* instant of the sweep and leaves every other entry unchanged; a lazy
\* deletion by get(k) or has(k) removes only the entry of k; no unexpired
\* entry is removed by an eviction.
C27_EvictionRemovesOnlyExpired ==
    [][ /\ event'.op = "cleanup" =>
            \A k \in CacheKeys :
                store'[k] = IF ExpiryPassed(store[k], now) THEN NoEntry ELSE store[k]
        /\ event'.op \in {"get", "has"} =>
            \A k \in CacheKeys :
                store'[k] # store[k] =>
                    (k = event'.key /\ ExpiryPassed(store[k], now) /\ store'[k] = NoEntry)
      ]_vars

\* a sweep has evicted k1 and kept an unexpired k2
C27_Witness_SweepKeptUnexpired ==
    /\ event.op = "cleanup"
    /\ ~store["k1"].present /\ unswept["k1"].present
    /\ store["k2"].present /\ now <= store["k2"].expiresAt

\* C28: has(key) returns true exactly when the store holds an entry for key
\* whose expiry has not passed, for every value that can be passed to set
\* (undefined included), and agrees with whether get(key) finds an unexpired
\* entry.
C28_HasIffUnexpiredEntry ==
    event.op = "has" =>
        (event.found <=> (store[event.key].present /\ now <= store[event.key].expiresAt))

\* C26: every invoked client operation eventually settles, also when the
\* remote sends the response headers and never finishes sending the body.
C26_EveryInvocationSettles == (pc # "idle") ~> Settled

\* C22: a wrapped create call returns the provider's response without
\* waiting for the usage report; a report that fails or never completes
\* neither changes the returned response nor makes the call fail, and the
\* failure of the report is only logged.
C22_ReportNeverAffectsResponse ==
    reports > 0 =>
        /\ wPc = "returned"
        /\ wOutcome = ProviderReturned(provided.response)
        /\ unhandled = NoError
        /\ Len(logged) = (IF report = "rejected" THEN 1 ELSE 0)

\* the caller holds the response while the report is still pending
C22_Witness_ReturnedBeforeReport ==
    /\ wPc = "returned"
    /\ report = "pending"
    /\ wOutcome.response.usage.input = Num(5)

\* C23: when the provider call throws, reportUsage is never invoked and the
\* provider's exception reaches the caller unchanged; reportUsage is invoked
\* at most once per wrapped call, and only after a provider response that
\* carries a usage object.
C23_ReportOnlyAfterUsage ==
    /\ provided.kind = "threw" =>
            (reports = 0 /\ report = "none" /\ wPc = "threw"
             /\ wOutcome.kind = "threw" /\ wOutcome.error = provided.error)
    /\ reports <= 1
    /\ reports = 1 =>
            (provided.kind = "returned" /\ provided.response.present
             /\ provided.response.usage.kind = "object")

\* the provider threw and the caller got that exception
C23_Witness_ProviderThrew ==
    /\ wPc = "threw"
    /\ wOutcome.error.name = "BadRequestError"
    /\ reports = 0

====
